---- MODULE Spec2Model ----
(***************************************************************************)
(* Model of the course-schedule-to-calendar core of AutoCalendarV4.py:     *)
(* parseCourses (text -> Course records), the four resolver functions      *)
(* (parseDays, parseDateRange, parseTimeRange, getFirstOccurrence) and     *)
(* generateICS (records -> calendar document).                             *)
(*                                                                         *)
(* A Python str is a sequence of one-character strings, so that strip,     *)
(* split, upper, `in`, strptime and strftime are computed character by     *)
(* character as the library computes them (ASCII subset).                  *)
(***************************************************************************)
EXTENDS Integers, Sequences, FiniteSets, TLC

VARIABLES
    \* parseCourses
    text,       \* the raw input text
    blocks,     \* text.strip().split("\n\n")
    bi,         \* index of the block the for loop is at
    courses,    \* the list of Course records built so far
    ppc,        \* "start" | "loop" | "returned" | "raised" | "off"
    \* generateICS (called twice on the same records)
    records,    \* the list of Course records handed to generateICS
    calendarName, \* the calendar title handed to generateICS
    records0,   \* history: the records as they were before the first call
    gi,         \* index of the record the for loop is at
    lines,      \* the list of output lines built so far
    dtStamp,    \* the generation timestamp read once per call
    drawn,      \* how many identifiers uuid.uuid4() has handed out
    call,       \* 1 or 2: which call is running
    doc1,       \* the first call's outcome
    doc2,       \* the second call's outcome
    gpc,        \* "start" | "loop" | "done" | "off"
    \* the resolver functions called on their own
    fn,         \* which function is called
    arg,        \* its argument
    ret,        \* its return value
    rpc         \* "call" | "ret" | "off"

parseVars == <<text, blocks, bi, courses, ppc>>
genVars == <<records, calendarName, records0, gi, lines, dtStamp, drawn, call, doc1, doc2, gpc>>
resVars == <<fn, arg, ret, rpc>>
vars == <<text, blocks, bi, courses, ppc, records, calendarName, records0, gi, lines, dtStamp, drawn,
          call, doc1, doc2, gpc, fn, arg, ret, rpc>>

(***************************************************************************)
(* Python str methods                                                      *)
(***************************************************************************)
LowerAZ == <<"a", "b", "c", "d", "e", "f", "g", "h", "i", "j", "k", "l", "m",
             "n", "o", "p", "q", "r", "s", "t", "u", "v", "w", "x", "y", "z">>
UpperAZ == <<"A", "B", "C", "D", "E", "F", "G", "H", "I", "J", "K", "L", "M",
             "N", "O", "P", "Q", "R", "S", "T", "U", "V", "W", "X", "Y", "Z">>
Digits == <<"0", "1", "2", "3", "4", "5", "6", "7", "8", "9">>

IsSpace(c) == c \in {" ", "\t", "\n"}
IsDigit(c) == \E i \in DOMAIN Digits : Digits[i] = c
DigitVal(c) == (CHOOSE i \in DOMAIN Digits : Digits[i] = c) - 1

UpperChar(c) ==
    IF \E i \in DOMAIN LowerAZ : LowerAZ[i] = c
    THEN UpperAZ[CHOOSE i \in DOMAIN LowerAZ : LowerAZ[i] = c]
    ELSE c
LowerChar(c) ==
    IF \E i \in DOMAIN UpperAZ : UpperAZ[i] = c
    THEN LowerAZ[CHOOSE i \in DOMAIN UpperAZ : UpperAZ[i] = c]
    ELSE c
\* str.upper(), str.lower(), str.capitalize()
Upper(s) == [i \in DOMAIN s |-> UpperChar(s[i])]
Lower(s) == [i \in DOMAIN s |-> LowerChar(s[i])]
Capitalize(s) == [i \in DOMAIN s |-> IF i = 1 THEN UpperChar(s[i]) ELSE LowerChar(s[i])]

\* str.strip(): leading and trailing whitespace removed
Strip(s) ==
    IF \A i \in DOMAIN s : IsSpace(s[i])
    THEN <<>>
    ELSE LET a == CHOOSE i \in DOMAIN s :
                      ~IsSpace(s[i]) /\ \A j \in 1..(i - 1) : IsSpace(s[j])
             b == CHOOSE i \in DOMAIN s :
                      ~IsSpace(s[i]) /\ \A j \in (i + 1)..Len(s) : IsSpace(s[j])
         IN  SubSeq(s, a, b)

\* sub in s
StartsAt(s, sub, i) == i + Len(sub) - 1 <= Len(s) /\ SubSeq(s, i, i + Len(sub) - 1) = sub
Contains(s, sub) == \E i \in 1..(Len(s) + 1) : StartsAt(s, sub, i)

\* the first index >= from where sub starts in s, 0 when there is none
Find(s, sub, from) ==
    IF \E i \in from..Len(s) : StartsAt(s, sub, i)
    THEN CHOOSE i \in from..Len(s) :
             StartsAt(s, sub, i) /\ \A j \in from..(i - 1) : ~StartsAt(s, sub, j)
    ELSE 0
\* s.split(sep), sep a non-empty string: always at least one part
RECURSIVE SplitFrom(_, _, _)
SplitFrom(s, sep, from) ==
    LET at == Find(s, sep, from)
    IN  IF at = 0 THEN <<SubSeq(s, from, Len(s))>>
        ELSE <<SubSeq(s, from, at - 1)>> \o SplitFrom(s, sep, at + Len(sep))
Split(s, sep) == SplitFrom(s, sep, 1)

\* s.splitlines(): split at line ends, no empty last line
SplitLines(s) ==
    LET parts == Split(s, <<"\n">>)
    IN  IF parts[Len(parts)] = <<>> THEN SubSeq(parts, 1, Len(parts) - 1) ELSE parts

\* re.split(r'\s{2,}', s): split at every maximal whitespace run of length >= 2
RECURSIVE ReSplitFrom(_, _, _)
ReSplitFrom(s, i, cur) ==
    IF i > Len(s) THEN <<cur>>
    ELSE IF IsSpace(s[i]) /\ i < Len(s) /\ IsSpace(s[i + 1])
         THEN LET e == CHOOSE k \in (i + 1)..Len(s) :
                           /\ \A j \in i..k : IsSpace(s[j])
                           /\ (k = Len(s) \/ ~IsSpace(s[k + 1]))
              IN  <<cur>> \o ReSplitFrom(s, e + 1, <<>>)
         ELSE ReSplitFrom(s, i + 1, Append(cur, s[i]))
ReSplitWide(s) == ReSplitFrom(s, 1, <<>>)

\* sep.join(parts)
RECURSIVE Join(_, _)
Join(parts, sep) ==
    IF parts = <<>> THEN <<>>
    ELSE IF Len(parts) = 1 THEN parts[1]
    ELSE parts[1] \o sep \o Join(Tail(parts), sep)

\* list.index(x): 0 when x is not in the list (Python raises ValueError)
IndexOf(list, x) ==
    IF \E i \in DOMAIN list : list[i] = x
    THEN CHOOSE i \in DOMAIN list : list[i] = x /\ \A j \in 1..(i - 1) : list[j] # x
    ELSE 0

(***************************************************************************)
(* Calendar dates (datetime.date) and the two strptime/strftime formats    *)
(* the code uses.  A date is [y, m, d]; None is NoDate / NoDT.             *)
(***************************************************************************)
NoDate == [y |-> 0, m |-> 0, d |-> 0]
NoDT == [y |-> 0, m |-> 0, d |-> 0, H |-> 0, M |-> 0]

IsLeap(y) == y % 4 = 0 /\ (y % 100 # 0 \/ y % 400 = 0)
DaysInMonth(y, m) ==
    IF m = 2 THEN (IF IsLeap(y) THEN 29 ELSE 28)
    ELSE IF m \in {4, 6, 9, 11} THEN 30 ELSE 31
\* date(y, m, d) raises ValueError outside MINYEAR..MAXYEAR or the month's days
ValidDate(y, m, d) == y \in 1..9999 /\ m \in 1..12 /\ d \in 1..DaysInMonth(y, m)

RECURSIVE DaysBeforeMonth(_, _)
DaysBeforeMonth(y, m) == IF m = 1 THEN 0 ELSE DaysBeforeMonth(y, m - 1) + DaysInMonth(y, m - 1)
\* date.toordinal()
ToOrdinal(dt) ==
    LET y1 == dt.y - 1
    IN  y1 * 365 + (y1 \div 4) - (y1 \div 100) + (y1 \div 400)
        + DaysBeforeMonth(dt.y, dt.m) + dt.d
\* date.weekday(): Monday is 0
Weekday(dt) == (ToOrdinal(dt) + 6) % 7
\* date + timedelta(days=1) raises OverflowError past date.max
IsMaxDate(dt) == dt.y = 9999 /\ dt.m = 12 /\ dt.d = 31
NextDay(dt) ==
    IF dt.d < DaysInMonth(dt.y, dt.m) THEN [dt EXCEPT !.d = dt.d + 1]
    ELSE IF dt.m < 12 THEN [dt EXCEPT !.m = dt.m + 1, !.d = 1]
    ELSE [y |-> dt.y + 1, m |-> 1, d |-> 1]

IsNum(p) == Len(p) >= 1 /\ \A i \in DOMAIN p : IsDigit(p[i])
RECURSIVE Val(_)
Val(p) == IF Len(p) = 0 THEN 0 ELSE Val(SubSeq(p, 1, Len(p) - 1)) * 10 + DigitVal(p[Len(p)])
RECURSIVE ToDigits(_)
ToDigits(n) == IF n < 10 THEN <<Digits[n + 1]>> ELSE Append(ToDigits(n \div 10), Digits[(n % 10) + 1])
Pad2(n) == IF n < 10 THEN <<"0">> \o ToDigits(n) ELSE ToDigits(n)

LStrip(s) ==
    IF \A i \in DOMAIN s : IsSpace(s[i]) THEN <<>>
    ELSE SubSeq(s, CHOOSE i \in DOMAIN s : ~IsSpace(s[i]) /\ \A j \in 1..(i - 1) : IsSpace(s[j]), Len(s))
\* the longest prefix of digits
DigitPrefix(s) ==
    IF \A i \in DOMAIN s : IsDigit(s[i]) THEN s
    ELSE SubSeq(s, 1, (CHOOSE i \in DOMAIN s : ~IsDigit(s[i]) /\ \A j \in 1..(i - 1) : IsDigit(s[j])) - 1)

\* strptime's directive patterns; each directive is followed by a non-digit
\* in the formats used here, so a field is a whole run of characters
\* %m and %I: 1[0-2]|0[1-9]|[1-9]
MatchM(p) == IsNum(p) /\ Len(p) <= 2 /\ Val(p) \in 1..12
\* %d: 3[01]|[12]\d|0[1-9]|[1-9]| [1-9]
MatchD(p) ==
    \/ IsNum(p) /\ Len(p) <= 2 /\ Val(p) \in 1..31
    \/ Len(p) = 2 /\ p[1] = " " /\ IsDigit(p[2]) /\ p[2] # "0"
\* %M: [0-5]\d|\d
MatchMin(p) == IsNum(p) /\ Len(p) <= 2 /\ Val(p) \in 0..59
\* %Y: \d\d\d\d
MatchY(p) == IsNum(p) /\ Len(p) = 4
\* %b, matched ignoring case
MonthAbbr == << <<"j", "a", "n">>, <<"f", "e", "b">>, <<"m", "a", "r">>, <<"a", "p", "r">>,
                <<"m", "a", "y">>, <<"j", "u", "n">>, <<"j", "u", "l">>, <<"a", "u", "g">>,
                <<"s", "e", "p">>, <<"o", "c", "t">>, <<"n", "o", "v">>, <<"d", "e", "c">> >>

MkDate(y, m, d) ==
    IF ValidDate(y, m, d) THEN [ok |-> TRUE, date |-> [y |-> y, m |-> m, d |-> d]]
    ELSE [ok |-> FALSE, date |-> NoDate]
\* datetime.strptime(s, "%m/%d/%Y"); ok = FALSE is ValueError
StrptimeMDY(s) ==
    LET p == Split(s, <<"/">>)
    IN  IF Len(p) = 3 /\ MatchM(p[1]) /\ MatchD(p[2]) /\ MatchY(p[3])
        THEN MkDate(Val(p[3]), Val(p[1]), Val(LStrip(p[2])))
        ELSE [ok |-> FALSE, date |-> NoDate]
\* datetime.strptime(s, "%b %d, %Y"): blanks of the format match \s+
StrptimeBDY(s) ==
    LET p == Split(SubSeq(s, 4, Len(s)), <<",">>)
    IN  IF /\ Len(s) >= 3
           /\ IndexOf(MonthAbbr, Lower(SubSeq(s, 1, 3))) # 0
           /\ Len(p) = 2
           /\ Len(p[1]) >= 1 /\ IsSpace(p[1][1]) /\ MatchD(LStrip(p[1])) /\ IsNum(LStrip(p[1]))
           /\ Len(p[2]) >= 1 /\ IsSpace(p[2][1]) /\ MatchY(LStrip(p[2]))
        THEN MkDate(Val(LStrip(p[2])), IndexOf(MonthAbbr, Lower(SubSeq(s, 1, 3))), Val(LStrip(p[1])))
        ELSE [ok |-> FALSE, date |-> NoDate]
DateFormats == <<"%m/%d/%Y", "%b %d, %Y">>
Strptime(s, fmt) == IF fmt = "%m/%d/%Y" THEN StrptimeMDY(s) ELSE StrptimeBDY(s)

\* eventDate.strftime('%m/%d/%Y'), the year as glibc prints it
StrftimeMDY(dt) == Pad2(dt.m) \o <<"/">> \o Pad2(dt.d) \o <<"/">> \o ToDigits(dt.y)

\* datetime.strptime(s, "%m/%d/%Y %I:%M %p"); ok = FALSE is ValueError
StrptimeDateTime(s) ==
    LET p == Split(s, <<"/">>)
        tl == IF Len(p) = 3 THEN p[3] ELSE <<>>
        clock == LStrip(SubSeq(tl, 5, Len(tl)))
        q == Split(clock, <<":">>)
        mm == IF Len(q) = 2 THEN DigitPrefix(q[2]) ELSE <<>>
        after == IF Len(q) = 2 THEN SubSeq(q[2], Len(mm) + 1, Len(q[2])) ELSE <<>>
        ampm == Upper(LStrip(after))
    IN  IF /\ Len(p) = 3 /\ MatchM(p[1]) /\ MatchD(p[2])
           /\ Len(tl) > 4 /\ MatchY(SubSeq(tl, 1, 4)) /\ IsSpace(tl[5])
           /\ Len(q) = 2 /\ MatchM(q[1]) /\ MatchMin(mm)
           /\ Len(after) >= 1 /\ IsSpace(after[1])
           /\ ampm \in {<<"A", "M">>, <<"P", "M">>}
           /\ ValidDate(Val(SubSeq(tl, 1, 4)), Val(p[1]), Val(LStrip(p[2])))
        THEN [ok |-> TRUE,
              dt |-> [y |-> Val(SubSeq(tl, 1, 4)), m |-> Val(p[1]), d |-> Val(LStrip(p[2])),
                      H |-> (Val(q[1]) % 12) + (IF ampm = <<"P", "M">> THEN 12 ELSE 0),
                      M |-> Val(mm)]]
        ELSE [ok |-> FALSE, dt |-> NoDT]

(***************************************************************************)
(* The resolver functions                                                  *)
(***************************************************************************)
\* parseDays's mapping (lines 106-114): day letter -> BYDAY value
DayLetters == <<"M", "T", "W", "R", "F", "S", "U">>
DayTokens == << <<"M", "O">>, <<"T", "U">>, <<"W", "E">>, <<"T", "H">>,
                <<"F", "R">>, <<"S", "A">>, <<"S", "U">> >>
InMapping(ch) == IndexOf(DayLetters, ch) # 0
mapping(ch) == DayTokens[IndexOf(DayLetters, ch)]

\* a faulty parseDays: the day string is not upper-cased
parseDaysCaseSensitive(daysStr) ==
    LET known == SelectSeq(Strip(daysStr), InMapping)
    IN  [i \in DOMAIN known |-> mapping(known[i])]
\* parseDays(daysStr): the list of BYDAY values of the recognized letters
parseDays(daysStr) ==
    LET known == SelectSeq(Upper(Strip(daysStr)), InMapping)
    IN  [i \in DOMAIN known |-> mapping(known[i])]

NonePair == [ok |-> FALSE, start |-> NoDate, end |-> NoDate]
\* a faulty format loop: each side is parsed under whichever format fits it
RECURSIVE TryFormatsMixed(_, _, _)
TryFormatsMixed(startStr, endStr, k) ==
    LET a == IF StrptimeMDY(startStr).ok THEN StrptimeMDY(startStr) ELSE StrptimeBDY(startStr)
        b == IF StrptimeMDY(endStr).ok THEN StrptimeMDY(endStr) ELSE StrptimeBDY(endStr)
    IN  IF a.ok /\ b.ok THEN [ok |-> TRUE, start |-> a.date, end |-> b.date] ELSE NonePair
\* parseDateRange's loop over the formats from the k-th on (lines 130-137)
RECURSIVE TryFormats(_, _, _)
TryFormats(startStr, endStr, k) ==
    IF k > Len(DateFormats) THEN NonePair
    ELSE LET a == Strptime(startStr, DateFormats[k])
             b == Strptime(endStr, DateFormats[k])
         IN  IF a.ok /\ b.ok
             THEN [ok |-> TRUE, start |-> a.date, end |-> b.date]
             ELSE TryFormats(startStr, endStr, k + 1)
\* parseDateRange(dateRangeStr): ok = FALSE is the return value (None, None)
parseDateRange(dateRangeStr) ==
    LET parts == Split(dateRangeStr, <<"-">>)
    IN  IF Len(parts) # 2 THEN NonePair
        ELSE TryFormats(Strip(parts[1]), Strip(parts[2]), 1)

NoTimes == [ok |-> FALSE, startDT |-> NoDT, endDT |-> NoDT]
\* parseTimeRange(timeStr, eventDate, tz): ok = FALSE is (None, None); tz only
\* tags the two datetimes, their wall-clock fields are what strptime read
parseTimeRange(timeStr, eventDate) ==
    LET parts == Split(timeStr, <<"-">>)
        day == StrftimeMDY(eventDate) \o <<" ">>
        s == StrptimeDateTime(day \o Upper(Strip(parts[1])))
        e == StrptimeDateTime(day \o Upper(Strip(parts[2])))
    IN  IF Len(parts) # 2 THEN NoTimes
        ELSE IF s.ok /\ e.ok THEN [ok |-> TRUE, startDT |-> s.dt, endDT |-> e.dt]
        ELSE NoTimes

\* getFirstOccurrence's weekdayMapping (line 163), Monday is 0
weekdayMapping(day) == IndexOf(DayTokens, day) - 1
targetWeekdays(bydayList) ==
    {weekdayMapping(bydayList[i]) : i \in {j \in DOMAIN bydayList : IndexOf(DayTokens, bydayList[j]) # 0}}
\* the for loop of getFirstOccurrence with n iterations left (lines 166-170)
RECURSIVE ScanDays(_, _, _, _)
ScanDays(current, n, targets, startDate) ==
    IF n = 0 THEN [exc |-> "none", date |-> startDate]
    ELSE IF Weekday(current) \in targets THEN [exc |-> "none", date |-> current]
    ELSE IF IsMaxDate(current) THEN [exc |-> "OverflowError", date |-> NoDate]
    ELSE ScanDays(NextDay(current), n - 1, targets, startDate)
\* a scan that never looks past the start date
getFirstOccurrenceNoScan(startDate, bydayList) ==
    [exc |-> "none", date |-> startDate]
\* getFirstOccurrence(startDate, bydayList)
getFirstOccurrence(startDate, bydayList) ==
    ScanDays(startDate, 7, targetWeekdays(bydayList), startDate)

\* formatDateTime(dt): "%Y%m%dT%H%M%S"
formatDateTime(dt) ==
    ToDigits(dt.y) \o Pad2(dt.m) \o Pad2(dt.d) \o <<"T">> \o Pad2(dt.H) \o Pad2(dt.M) \o <<"0", "0">>

(***************************************************************************)
(* The resolver functions called on their own, on bounded inputs           *)
(***************************************************************************)
MaxDaysLen == 3
MaxParts == 3
MaxTokens == 2

SeqsUpTo(S, n) == UNION {[1..k -> S] : k \in 0..n}

DayAlphabet == {"M", "T", "W", "R", "F", "S", "U", "f", "Z", " "}
SidePool ==
    {<<"0", "1", "/", "0", "6", "/", "2", "0", "2", "5">>,
     <<"0", "4", "/", "0", "8", "/", "2", "0", "2", "5">>,
     <<"J", "a", "n", " ", "0", "6", ",", " ", "2", "0", "2", "5">>,
     <<"A", "p", "r", " ", "0", "8", ",", " ", "2", "0", "2", "5">>,
     <<"1", "/", "6", "/", "2", "0", "2", "5">>,
     <<"0", "2", "/", "3", "0", "/", "2", "0", "2", "5">>,
     <<"1", "2", "/", "2", "8", "/", "9", "9", "9", "9">>,
     <<"g", "a", "r", "b", "a", "g", "e">>,
     <<>>}
ClockPool ==
    {<<"9", ":", "3", "0", " ", "A", "M">>,
     <<"1", "0", ":", "4", "5", " ", "A", "M">>,
     <<"9", ":", "3", "0", " ", "a", "m">>,
     <<"1", "2", ":", "0", "0", " ", "p", "m">>,
     <<"1", "2", ":", "1", "5", " ", "A", "M">>,
     <<"1", "3", ":", "0", "0", " ", "P", "M">>,
     <<"9", ":", "3", "0", "A", "M">>,
     <<"n", "o", "o", "n">>}
PadPool == {<<>>, <<" ">>}
\* between one and MaxParts sides joined by "-", each "-" padded by pad
RangeStrings(pool) ==
    {Join(parts, pad \o <<"-">> \o pad) :
        parts \in (SeqsUpTo(pool, MaxParts) \ {<<>>}), pad \in PadPool}
DatePool ==
    {[y |-> 2025, m |-> 1, d |-> d] : d \in 1..7}
    \cup {[y |-> 9999, m |-> 12, d |-> d] : d \in 25..31}
    \cup {[y |-> 2024, m |-> 2, d |-> 26], [y |-> 2025, m |-> 2, d |-> 26],
          [y |-> 2025, m |-> 12, d |-> 29]}
EventDatePool == {[y |-> 2025, m |-> 1, d |-> 6], [y |-> 9999, m |-> 12, d |-> 31]}
TokenPool == {DayTokens[i] : i \in DOMAIN DayTokens} \cup {<<"X", "X">>}

\* a call that has not finished yet
NoOutcome == [exc |-> "pending", doc |-> <<>>]
ParseIdle ==
    /\ text = <<>> /\ blocks = <<>> /\ bi = 0 /\ courses = <<>> /\ ppc = "off"
GenIdle ==
    /\ records = <<>> /\ calendarName = <<>> /\ records0 = <<>> /\ gi = 0 /\ lines = <<>> /\ dtStamp = <<>> /\ drawn = 0
    /\ call = 0 /\ doc1 = NoOutcome /\ doc2 = NoOutcome /\ gpc = "off"
ResolveIdle ==
    /\ fn = "none" /\ arg = <<>> /\ ret = <<>> /\ rpc = "off"

InitResolve ==
    /\ ParseIdle /\ GenIdle
    /\ rpc = "call" /\ ret = <<>>
    /\ \/ fn = "parseDays" /\ arg \in SeqsUpTo(DayAlphabet, MaxDaysLen)
       \/ fn = "parseDateRange" /\ arg \in RangeStrings(SidePool)
       \/ /\ fn = "parseTimeRange"
          /\ arg \in [timeStr : RangeStrings(ClockPool), eventDate : EventDatePool]
       \/ /\ fn = "getFirstOccurrence"
          /\ arg \in [startDate : DatePool, bydayList : SeqsUpTo(TokenPool, MaxTokens)]

Return(v) ==
    /\ rpc = "call" /\ rpc' = "ret" /\ ret' = v
    /\ UNCHANGED <<fn, arg>> /\ UNCHANGED parseVars /\ UNCHANGED genVars
CallParseDays == fn = "parseDays" /\ Return(parseDays(arg))
CallParseDateRange == fn = "parseDateRange" /\ Return(parseDateRange(arg))
CallParseTimeRange ==
    fn = "parseTimeRange" /\ Return(parseTimeRange(arg.timeStr, arg.eventDate))
CallGetFirstOccurrence ==
    fn = "getFirstOccurrence" /\ Return(getFirstOccurrence(arg.startDate, arg.bydayList))

NextResolve ==
    \/ CallParseDays
    \/ CallParseDateRange
    \/ CallParseTimeRange
    \/ CallGetFirstOccurrence
SpecResolve == InitResolve /\ [][NextResolve]_vars

(***************************************************************************)
(* Properties of the resolver functions (under SpecResolve)                *)
(***************************************************************************)
Returned(f) == fn = f /\ rpc = "ret"

\* The documented table, read per character of the day string, either case
TableToken(c) ==
    CASE c \in {"M", "m"} -> << <<"M", "O">> >>
      [] c \in {"T", "t"} -> << <<"T", "U">> >>
      [] c \in {"W", "w"} -> << <<"W", "E">> >>
      [] c \in {"R", "r"} -> << <<"T", "H">> >>
      [] c \in {"F", "f"} -> << <<"F", "R">> >>
      [] c \in {"S", "s"} -> << <<"S", "A">> >>
      [] c \in {"U", "u"} -> << <<"S", "U">> >>
      [] OTHER -> <<>>
RECURSIVE TableDecode(_)
TableDecode(s) == IF Len(s) = 0 THEN <<>> ELSE TableToken(s[1]) \o TableDecode(Tail(s))

BothParse(parts, fmt) ==
    Strptime(Strip(parts[1]), fmt).ok /\ Strptime(Strip(parts[2]), fmt).ok
Jan06 == [y |-> 2025, m |-> 1, d |-> 6]
Apr08 == [y |-> 2025, m |-> 4, d |-> 8]
\* C7: parseDateRange returns a pair exactly when the input splits on "-"
\* into two parts that both parse under the same format, MM/DD/YYYY tried
\* before "Mon DD, YYYY"; otherwise (None, None).  The two documented ranges
\* give (2025-01-06, 2025-04-08) and "garbage" gives (None, None).
C7_ParseDateRangeExact ==
    Returned("parseDateRange") =>
        LET parts == Split(arg, <<"-">>)
            fits == {k \in DOMAIN DateFormats : Len(parts) = 2 /\ BothParse(parts, DateFormats[k])}
            first == CHOOSE k \in fits : \A j \in fits : k <= j
        IN  /\ ret.ok <=> fits # {}
            /\ fits # {} =>
                   /\ ret.start = Strptime(Strip(parts[1]), DateFormats[first]).date
                   /\ ret.end = Strptime(Strip(parts[2]), DateFormats[first]).date
            /\ fits = {} => ret = NonePair
            /\ arg = <<"0", "1", "/", "0", "6", "/", "2", "0", "2", "5", " ", "-", " ",
                       "0", "4", "/", "0", "8", "/", "2", "0", "2", "5">>
                   => ret = [ok |-> TRUE, start |-> Jan06, end |-> Apr08]
            /\ arg = <<"J", "a", "n", " ", "0", "6", ",", " ", "2", "0", "2", "5", " ", "-", " ",
                       "A", "p", "r", " ", "0", "8", ",", " ", "2", "0", "2", "5">>
                   => ret = [ok |-> TRUE, start |-> Jan06, end |-> Apr08]
            /\ arg = <<"g", "a", "r", "b", "a", "g", "e">> => ret = NonePair
\* the second format is reached after the first one failed
C7_Witness ==
    /\ Returned("parseDateRange")
    /\ arg = <<"J", "a", "n", " ", "0", "6", ",", " ", "2", "0", "2", "5", " ", "-", " ",
               "A", "p", "r", " ", "0", "8", ",", " ", "2", "0", "2", "5">>
    /\ ret = [ok |-> TRUE, start |-> Jan06, end |-> Apr08]

\* the weekdays named by the valid tokens of a BYDAY list, Monday = 0
NamedWeekdays(bydayList) ==
    {w \in 0..6 : \E i \in DOMAIN bydayList : bydayList[i] = DayTokens[w + 1]}
Jan01Wed == [y |-> 2025, m |-> 1, d |-> 1]
\* C5: getFirstOccurrence returns the earliest of the 7 days from startDate
\* on whose weekday is a target: startDate <= d <= startDate + 6, no earlier
\* match; with no target it returns startDate.  A Wednesday with {MO} gives
\* the day 5 days later, with {WE} the Wednesday itself.
C5_FirstOccurrenceInWeek ==
    Returned("getFirstOccurrence") =>
        LET t == NamedWeekdays(arg.bydayList)
            w0 == Weekday(arg.startDate)
            off == ToOrdinal(ret.date) - ToOrdinal(arg.startDate)
        IN  /\ ret.exc = "none"
            /\ t # {} =>
                   /\ off \in 0..6
                   /\ (w0 + off) % 7 \in t
                   /\ \A k \in 0..(off - 1) : (w0 + k) % 7 \notin t
            /\ t = {} => ret.date = arg.startDate
            /\ (arg.startDate = Jan01Wed /\ arg.bydayList = << <<"M", "O">> >>) => off = 5
            /\ (arg.startDate = Jan01Wed /\ arg.bydayList = << <<"W", "E">> >>) => off = 0

(***************************************************************************)
(* generateICS: the text of the lines it writes                            *)
(***************************************************************************)
S_TBA ==
    <<"T", "B", "A">>
S_tzid ==
    <<"A", "m", "e", "r", "i", "c", "a", "/", "N", "e", "w", "_", "Y", "o", "r", "k">>
S_VTimezoneHead ==
    <<"B", "E", "G", "I", "N", ":", "V", "T", "I", "M", "E", "Z", "O", "N", "E", "\n", "T",
      "Z", "I", "D", ":">>
S_VTimezoneTail ==
    <<"\n", "X", "-", "L", "I", "C", "-", "L", "O", "C", "A", "T", "I", "O", "N", ":", "A",
      "m", "e", "r", "i", "c", "a", "/", "N", "e", "w", "_", "Y", "o", "r", "k", "\n", "B",
      "E", "G", "I", "N", ":", "D", "A", "Y", "L", "I", "G", "H", "T", "\n", "T", "Z", "O",
      "F", "F", "S", "E", "T", "F", "R", "O", "M", ":", "-", "0", "5", "0", "0", "\n", "T",
      "Z", "O", "F", "F", "S", "E", "T", "T", "O", ":", "-", "0", "4", "0", "0", "\n", "T",
      "Z", "N", "A", "M", "E", ":", "E", "D", "T", "\n", "D", "T", "S", "T", "A", "R", "T",
      ":", "1", "9", "7", "0", "0", "3", "0", "8", "T", "0", "2", "0", "0", "0", "0", "\n",
      "R", "R", "U", "L", "E", ":", "F", "R", "E", "Q", "=", "Y", "E", "A", "R", "L", "Y",
      ";", "B", "Y", "M", "O", "N", "T", "H", "=", "3", ";", "B", "Y", "D", "A", "Y", "=",
      "2", "S", "U", "\n", "E", "N", "D", ":", "D", "A", "Y", "L", "I", "G", "H", "T",
      "\n", "B", "E", "G", "I", "N", ":", "S", "T", "A", "N", "D", "A", "R", "D", "\n",
      "T", "Z", "O", "F", "F", "S", "E", "T", "F", "R", "O", "M", ":", "-", "0", "4", "0",
      "0", "\n", "T", "Z", "O", "F", "F", "S", "E", "T", "T", "O", ":", "-", "0", "5", "0",
      "0", "\n", "T", "Z", "N", "A", "M", "E", ":", "E", "S", "T", "\n", "D", "T", "S",
      "T", "A", "R", "T", ":", "1", "9", "7", "0", "1", "1", "0", "1", "T", "0", "2", "0",
      "0", "0", "0", "\n", "R", "R", "U", "L", "E", ":", "F", "R", "E", "Q", "=", "Y", "E",
      "A", "R", "L", "Y", ";", "B", "Y", "M", "O", "N", "T", "H", "=", "1", "1", ";", "B",
      "Y", "D", "A", "Y", "=", "1", "S", "U", "\n", "E", "N", "D", ":", "S", "T", "A", "N",
      "D", "A", "R", "D", "\n", "E", "N", "D", ":", "V", "T", "I", "M", "E", "Z", "O", "N",
      "E">>
S_BeginCalendar ==
    <<"B", "E", "G", "I", "N", ":", "V", "C", "A", "L", "E", "N", "D", "A", "R">>
S_Version ==
    <<"V", "E", "R", "S", "I", "O", "N", ":", "2", ".", "0">>
S_ProdId ==
    <<"P", "R", "O", "D", "I", "D", ":", "-", "/", "/", "C", "o", "u", "r", "s", "e", " ",
      "I", "C", "S", " ", "C", "o", "n", "v", "e", "r", "t", "e", "r", "/", "/", "E", "N">>
S_CalName ==
    <<"X", "-", "W", "R", "-", "C", "A", "L", "N", "A", "M", "E", ":">>
S_BeginEvent ==
    <<"B", "E", "G", "I", "N", ":", "V", "E", "V", "E", "N", "T">>
S_Uid ==
    <<"U", "I", "D", ":">>
S_UidSuffix ==
    <<"@", "c", "o", "u", "r", "s", "e", "c", "a", "l", "e", "n", "d", "a", "r">>
S_DtStamp ==
    <<"D", "T", "S", "T", "A", "M", "P", ":">>
S_DtStart ==
    <<"D", "T", "S", "T", "A", "R", "T", ";", "T", "Z", "I", "D", "=">>
S_DtEnd ==
    <<"D", "T", "E", "N", "D", ";", "T", "Z", "I", "D", "=">>
S_RRule ==
    <<"R", "R", "U", "L", "E", ":">>
S_Freq ==
    <<"F", "R", "E", "Q", "=", "W", "E", "E", "K", "L", "Y", ";", "U", "N", "T", "I", "L",
      "=">>
S_ByDay ==
    <<";", "B", "Y", "D", "A", "Y", "=">>
S_Summary ==
    <<"S", "U", "M", "M", "A", "R", "Y", ":">>
S_Description ==
    <<"D", "E", "S", "C", "R", "I", "P", "T", "I", "O", "N", ":">>
S_Type ==
    <<"T", "y", "p", "e", ":", " ">>
S_Instructor ==
    <<"\\", "n", "I", "n", "s", "t", "r", "u", "c", "t", "o", "r", ":", " ">>
S_Location ==
    <<"L", "O", "C", "A", "T", "I", "O", "N", ":">>
S_EndEvent ==
    <<"E", "N", "D", ":", "V", "E", "V", "E", "N", "T">>
S_EndCalendar ==
    <<"E", "N", "D", ":", "V", "C", "A", "L", "E", "N", "D", "A", "R">>
S_DefaultName ==
    <<"C", "o", "u", "r", "s", "e", "s", " ", "C", "a", "l", "e", "n", "d", "a", "r">>

\* generateVTimezone(tzid): one string of 18 lines
generateVTimezone(tzid) == S_VTimezoneHead \o tzid \o S_VTimezoneTail

\* the Course records generateICS is run on: each is one that parseCourses
\* builds from a tab-delimited block holding these cells
\* a well-formed weekly lecture
R_Lecture ==
    [className |-> <<"C", "1">>,
     instructor |-> <<"A", "n", "n">>,
     meetingType |-> <<"l", "e", "c", "t", "u", "r", "e">>,
     time |-> <<"9", ":", "3", "0", " ", "A", "M", " ", "-", " ", "1", "0", ":", "4", "5", " ", "A", "M">>,
     days |-> <<"M", "W", "F">>,
     location |-> <<"R", "m", " ", "1">>,
     dateRange |-> <<"0", "1", "/", "0", "6", "/", "2", "0", "2", "5", " ", "-", " ", "0", "4", "/", "0", "8", "/", "2", "0", "2", "5">>]
\* a block without schedule data
R_Unscheduled ==
    [className |-> <<"C", "2">>,
     instructor |-> <<"T", "B", "A">>,
     meetingType |-> <<"t", "b", "a">>,
     time |-> <<"T", "B", "A">>,
     days |-> <<"T", "B", "A">>,
     location |-> <<"T", "B", "A">>,
     dateRange |-> <<"T", "B", "A">>]
\* only the days are unknown
R_DaysTBA ==
    [className |-> <<"C", "3">>,
     instructor |-> <<"A", "n", "n">>,
     meetingType |-> <<"l", "a", "b">>,
     time |-> <<"9", ":", "3", "0", " ", "A", "M", " ", "-", " ", "1", "0", ":", "4", "5", " ", "A", "M">>,
     days |-> <<"T", "B", "A">>,
     location |-> <<"R", "m", " ", "1">>,
     dateRange |-> <<"0", "1", "/", "0", "6", "/", "2", "0", "2", "5", " ", "-", " ", "0", "4", "/", "0", "8", "/", "2", "0", "2", "5">>]
\* a date range that does not parse
R_BadRange ==
    [className |-> <<"C", "4">>,
     instructor |-> <<"A", "n", "n">>,
     meetingType |-> <<"l", "e", "c", "t", "u", "r", "e">>,
     time |-> <<"9", ":", "3", "0", " ", "A", "M", " ", "-", " ", "1", "0", ":", "4", "5", " ", "A", "M">>,
     days |-> <<"M", "W", "F">>,
     location |-> <<"R", "m", " ", "1">>,
     dateRange |-> <<"g", "a", "r", "b", "a", "g", "e">>]
\* no recognized day letter
R_NoDays ==
    [className |-> <<"C", "5">>,
     instructor |-> <<"A", "n", "n">>,
     meetingType |-> <<"l", "e", "c", "t", "u", "r", "e">>,
     time |-> <<"9", ":", "3", "0", " ", "A", "M", " ", "-", " ", "1", "0", ":", "4", "5", " ", "A", "M">>,
     days |-> <<"Z">>,
     location |-> <<"R", "m", " ", "1">>,
     dateRange |-> <<"0", "1", "/", "0", "6", "/", "2", "0", "2", "5", " ", "-", " ", "0", "4", "/", "0", "8", "/", "2", "0", "2", "5">>]
\* a time without the blank before AM
R_BadTime ==
    [className |-> <<"C", "6">>,
     instructor |-> <<"A", "n", "n">>,
     meetingType |-> <<"l", "e", "c", "t", "u", "r", "e">>,
     time |-> <<"9", ":", "3", "0", "A", "M", " ", "-", " ", "1", "0", ":", "4", "5", " ", "A", "M">>,
     days |-> <<"M", "W", "F">>,
     location |-> <<"R", "m", " ", "1">>,
     dateRange |-> <<"0", "1", "/", "0", "6", "/", "2", "0", "2", "5", " ", "-", " ", "0", "4", "/", "0", "8", "/", "2", "0", "2", "5">>]
\* the other date format, lower-case times, no room
R_Tutorial ==
    [className |-> <<"C", "7">>,
     instructor |-> <<"T", "B", "A">>,
     meetingType |-> <<"t", "u", "t", "o", "r", "i", "a", "l">>,
     time |-> <<"1", ":", "0", "0", " ", "p", "m", " ", "-", " ", "2", ":", "1", "5", " ", "p", "m">>,
     days |-> <<"t", "r">>,
     location |-> <<"T", "B", "A">>,
     dateRange |-> <<"J", "a", "n", " ", "0", "8", ",", " ", "2", "0", "2", "5", " ", "-", " ", "A", "p", "r", " ", "0", "8", ",", " ", "2", "0", "2", "5">>]
\* a range in the last days of year 9999
R_LastWeek ==
    [className |-> <<"C", "8">>,
     instructor |-> <<"A", "n", "n">>,
     meetingType |-> <<"l", "e", "c", "t", "u", "r", "e">>,
     time |-> <<"9", ":", "3", "0", " ", "A", "M", " ", "-", " ", "1", "0", ":", "4", "5", " ", "A", "M">>,
     days |-> <<"M">>,
     location |-> <<"R", "m", " ", "1">>,
     dateRange |-> <<"1", "2", "/", "2", "8", "/", "9", "9", "9", "9", " ", "-", " ", "1", "2", "/", "3", "1", "/", "9", "9", "9", "9">>]
RecordPool == {R_Lecture, R_Unscheduled, R_DaysTBA, R_BadRange, R_NoDays, R_BadTime, R_Tutorial, R_LastWeek}

MaxRecords == 2
NamePool == {S_DefaultName}
\* str(uuid.uuid4()): every draw is an identifier never handed out before,
\* written here as the number of the draw
uuid4(n) == ToDigits(n + 1)
\* datetime.utcnow() seen in the fixed zone: any of two instants
NowPool == {[y |-> 2026, m |-> 11, d |-> 1, H |-> 6, M |-> 46],
            [y |-> 2026, m |-> 11, d |-> 1, H |-> 6, M |-> 47]}

(***************************************************************************)
(* generateICS(courses, calendarName), run twice on the same records       *)
(***************************************************************************)
InitGen ==
    /\ ParseIdle /\ ResolveIdle
    /\ records \in SeqsUpTo(RecordPool, MaxRecords)
    /\ records0 = records
    /\ calendarName \in NamePool
    /\ gi = 0 /\ lines = <<>> /\ dtStamp = <<>> /\ drawn = 0
    /\ call = 1 /\ doc1 = NoOutcome /\ doc2 = NoOutcome /\ gpc = "start"

\* a faulty start: the list of lines survives from the call before
StaleLines(old) == old
\* lines = [] (line 216)
FreshLines(old) == <<>>
\* lines 217-222
HeaderLines(name) ==
    <<S_BeginCalendar, S_Version, S_ProdId, S_CalName \o name, generateVTimezone(S_tzid)>>

\* lines 213-225: the header and the timestamp, read once per call
GenStart ==
    /\ gpc = "start"
    /\ \E now \in NowPool : dtStamp' = formatDateTime(now)
    /\ lines' = FreshLines(lines) \o HeaderLines(calendarName)
    /\ gi' = 1
    /\ gpc' = "loop"
    /\ UNCHANGED <<records, calendarName, records0, drawn, call, doc1, doc2>>
    /\ UNCHANGED parseVars /\ UNCHANGED resVars

InLoop == gpc = "loop" /\ gi <= Len(records)
\* `continue`
Continue ==
    /\ gi' = gi + 1
    /\ UNCHANGED <<records, calendarName, records0, lines, dtStamp, drawn, call, doc1, doc2, gpc>>
    /\ UNCHANGED parseVars /\ UNCHANGED resVars
\* the call ends, by return or by an exception; the second call follows the first
Finish(outcome) ==
    /\ IF call = 1
       THEN doc1' = outcome /\ doc2' = doc2 /\ call' = 2 /\ gpc' = "start"
       ELSE doc1' = doc1 /\ doc2' = outcome /\ call' = call /\ gpc' = "done"
    /\ UNCHANGED <<records, calendarName, records0, gi, lines, dtStamp, drawn>>
    /\ UNCHANGED parseVars /\ UNCHANGED resVars

\* line 229
MissingInfo(course) ==
    course.dateRange = S_TBA \/ course.time = S_TBA \/ course.days = S_TBA
\* a faulty recurrence bound: the first occurrence's own date
UntilOnStartDate(endDate, startDT) == startDT
\* datetime.combine(endDate, startDT.timetz()) (lines 249-250)
UntilDT(endDate, startDT) ==
    [y |-> endDate.y, m |-> endDate.m, d |-> endDate.d, H |-> startDT.H, M |-> startDT.M]
\* line 251
RRule(untilDT, bydayList) ==
    S_Freq \o formatDateTime(untilDT) \o S_ByDay \o Join(bydayList, <<",">>)
\* line 254
Description(course) ==
    S_Type \o Capitalize(course.meetingType) \o S_Instructor \o course.instructor
\* lines 256-265
EventLines(course, uid, stamp, startDT, endDT, rrule) ==
    <<S_BeginEvent,
      S_Uid \o uid \o S_UidSuffix,
      S_DtStamp \o stamp,
      S_DtStart \o S_tzid \o <<":">> \o formatDateTime(startDT),
      S_DtEnd \o S_tzid \o <<":">> \o formatDateTime(endDT),
      S_RRule \o rrule,
      S_Summary \o course.className,
      S_Description \o Description(course),
      S_Location \o course.location,
      S_EndEvent>>

\* lines 229-230
GenSkipMissing ==
    /\ InLoop
    /\ MissingInfo(records[gi])
    /\ Continue
\* lines 232-234
GenSkipDateRange ==
    /\ InLoop
    /\ ~MissingInfo(records[gi])
    /\ ~parseDateRange(records[gi].dateRange).ok
    /\ Continue
\* lines 237-239
GenSkipDays ==
    /\ InLoop
    /\ ~MissingInfo(records[gi])
    /\ parseDateRange(records[gi].dateRange).ok
    /\ parseDays(records[gi].days) = <<>>
    /\ Continue
\* line 242, when date + timedelta overflows: the exception leaves generateICS
GenRaise ==
    /\ InLoop
    /\ ~MissingInfo(records[gi])
    /\ LET range == parseDateRange(records[gi].dateRange)
           bydayList == parseDays(records[gi].days)
       IN  /\ range.ok
           /\ bydayList # <<>>
           /\ getFirstOccurrence(range.start, bydayList).exc # "none"
           /\ Finish([exc |-> getFirstOccurrence(range.start, bydayList).exc, doc |-> <<>>])
\* lines 242-245
GenSkipTime ==
    /\ InLoop
    /\ ~MissingInfo(records[gi])
    /\ LET range == parseDateRange(records[gi].dateRange)
           bydayList == parseDays(records[gi].days)
           first == getFirstOccurrence(range.start, bydayList)
       IN  /\ range.ok
           /\ bydayList # <<>>
           /\ first.exc = "none"
           /\ ~parseTimeRange(records[gi].time, first.date).ok
    /\ Continue
\* lines 242-265
GenEmit ==
    /\ InLoop
    /\ ~MissingInfo(records[gi])
    /\ LET range == parseDateRange(records[gi].dateRange)
           bydayList == parseDays(records[gi].days)
           first == getFirstOccurrence(range.start, bydayList)
           times == parseTimeRange(records[gi].time, first.date)
       IN  /\ range.ok
           /\ bydayList # <<>>
           /\ first.exc = "none"
           /\ times.ok
           /\ lines' = lines \o EventLines(records[gi], uuid4(drawn), dtStamp,
                                            times.startDT, times.endDT,
                                            RRule(UntilDT(range.end, times.startDT), bydayList))
    /\ drawn' = drawn + 1
    /\ gi' = gi + 1
    /\ UNCHANGED <<records, calendarName, records0, dtStamp, call, doc1, doc2, gpc>>
    /\ UNCHANGED parseVars /\ UNCHANGED resVars
\* lines 267-268
GenReturn ==
    /\ gpc = "loop" /\ gi > Len(records)
    /\ Finish([exc |-> "none", doc |-> Join(Append(lines, S_EndCalendar), <<"\n">>)])

NextGen ==
    \/ GenStart
    \/ GenSkipMissing
    \/ GenSkipDateRange
    \/ GenSkipDays
    \/ GenRaise
    \/ GenSkipTime
    \/ GenEmit
    \/ GenReturn
SpecGen == InitGen /\ [][NextGen]_vars

(***************************************************************************)
(* Properties of generateICS (under SpecGen), read off the document text   *)
(***************************************************************************)
DocLines(doc) == Split(doc, <<"\n">>)
HasPrefix(line, prefix) == StartsAt(line, prefix, 1)
\* the SUMMARY lines of a document, in order: one per event block
Summaries(doc) == SelectSeq(DocLines(doc), LAMBDA l : HasPrefix(l, S_Summary))
EventCount(doc) == Len(SelectSeq(DocLines(doc), LAMBDA l : l = S_BeginEvent))
\* the 10 lines of the k-th event block of a document
EventBlock(doc, k) ==
    LET L == DocLines(doc)
        begins == SelectSeq([i \in 1..Len(L) |-> i], LAMBDA i : L[i] = S_BeginEvent)
    IN  SubSeq(L, begins[k], begins[k] + 9)
\* what follows prefix on the block's line that starts with it
FieldOf(block, prefix) ==
    LET l == block[CHOOSE i \in DOMAIN block : HasPrefix(block[i], prefix)]
    IN  SubSeq(l, Len(prefix) + 1, Len(l))

\* the record is one the generator is documented to keep
Schedulable(course) ==
    /\ course.dateRange # S_TBA /\ course.time # S_TBA /\ course.days # S_TBA
    /\ parseDateRange(course.dateRange).ok
    /\ parseDays(course.days) # <<>>
    /\ LET first == getFirstOccurrence(parseDateRange(course.dateRange).start,
                                       parseDays(course.days))
       IN  first.exc = "none" /\ parseTimeRange(course.time, first.date).ok
\* the outcome of the call that has just ended
Outcomes ==
    IF gpc = "start" /\ call = 2 THEN {doc1}
    ELSE IF gpc = "done" THEN {doc2}
    ELSE {}

\* C2: generateICS writes one event block for a record exactly when none of
\* dateRange, time, days is "TBA" and the date range, the days and the time
\* range all resolve; every other record is left out without an error, so
\* the document holds as many event blocks as there are such records, in the
\* records' order.
C2_OneEventPerSchedulable ==
    \A o \in Outcomes :
            /\ o.exc = "none"
            /\ LET kept == SelectSeq(records, Schedulable)
               IN  /\ EventCount(o.doc) = Len(kept)
                   /\ Summaries(o.doc) = [k \in DOMAIN kept |-> S_Summary \o kept[k].className]

\* C6: generateICS never raises on records parseCourses can produce: every
\* call returns a document, bad data only means fewer events.
C6_GenerateNeverRaises ==
    \A o \in Outcomes : o.exc = "none"

LectureRRule ==
    <<"R", "R", "U", "L", "E", ":", "F", "R", "E", "Q", "=", "W", "E", "E", "K", "L", "Y", ";", "U", "N", "T", "I", "L", "=", "2", "0", "2", "5", "0", "4", "0", "8", "T", "0", "9", "3", "0", "0", "0", ";", "B", "Y", "D", "A", "Y", "=", "M", "O", ",", "W", "E", ",", "F", "R">>
\* C4: every event's rule is weekly, bounded by the range's end date at the
\* event's own start clock time, active on the decoded weekdays in decoding
\* order ("MWF", 01/06/2025 - 04/08/2025, 9:30 AM gives 20250408T093000 and
\* MO,WE,FR).
C4_WeeklyRuleUntilEndDate ==
    \A o \in Outcomes :
        o.exc = "none" =>
            \A k \in 1..EventCount(o.doc) :
                LET block == EventBlock(o.doc, k)
                    course == CHOOSE c \in {records[i] : i \in DOMAIN records} :
                                  c.className = FieldOf(block, S_Summary)
                    end == parseDateRange(course.dateRange).end
                    dtstart == FieldOf(block, S_DtStart \o S_tzid \o <<":">>)
                IN  /\ FieldOf(block, S_RRule) =
                           S_Freq \o ToDigits(end.y) \o Pad2(end.m) \o Pad2(end.d)
                           \o SubSeq(dtstart, 9, 15)
                           \o S_ByDay \o Join(TableDecode(course.days), <<",">>)
                    /\ course = R_Lecture => block[6] = LectureRRule
\* the documented lecture has been written out
C4_Witness ==
    /\ gpc = "done"
    /\ doc1.exc = "none"
    /\ EventCount(doc1.doc) = 1
    /\ EventBlock(doc1.doc, 1)[6] = LectureRRule

\* a document with the text of its UID and DTSTAMP lines blanked
Masked(doc) ==
    LET L == DocLines(doc)
    IN  [i \in DOMAIN L |->
            IF HasPrefix(L[i], S_Uid) THEN S_Uid
            ELSE IF HasPrefix(L[i], S_DtStamp) THEN S_DtStamp
            ELSE L[i]]
\* C10: two calls on the same records and title end the same way and their
\* documents differ at most in the UID and DTSTAMP lines; the records are
\* never modified.
C10_SecondCallSameDocument ==
    /\ gpc # "off" => records = records0
    /\ gpc = "done" =>
           /\ doc1.exc = doc2.exc
           /\ Masked(doc1.doc) = Masked(doc2.doc)
\* two events written twice, under other identifiers and another timestamp
C10_Witness ==
    /\ gpc = "done"
    /\ doc1.exc = "none" /\ doc2.exc = "none"
    /\ EventCount(doc1.doc) = 2
    /\ doc1.doc # doc2.doc
    /\ \E i \in DOMAIN DocLines(doc1.doc) :
           /\ HasPrefix(DocLines(doc1.doc)[i], S_DtStamp)
           /\ DocLines(doc1.doc)[i] # DocLines(doc2.doc)[i]

(***************************************************************************)
(* parseCourses(text)                                                      *)
(***************************************************************************)
S_InstructorMarker ==
    <<"A", "s", "s", "i", "g", "n", "e", "d", " ", "I", "n", "s", "t", "r", "u", "c", "t",
      "o", "r", ":">>
S_ScheduleMarker ==
    <<"S", "c", "h", "e", "d", "u", "l", "e", "d", " ", "M", "e", "e", "t", "i", "n", "g",
      " ", "T", "i", "m", "e", "s">>
S_Time ==
    <<"T", "i", "m", "e">>
S_Days ==
    <<"D", "a", "y", "s">>
S_Where ==
    <<"W", "h", "e", "r", "e">>
S_DateRange ==
    <<"D", "a", "t", "e", " ", "R", "a", "n", "g", "e">>
S_ScheduleType ==
    <<"S", "c", "h", "e", "d", "u", "l", "e", " ", "T", "y", "p", "e">>

\* Python's None where a str may stand: no string holds this element
None == <<"None">>
\* `if x:` for x a str or None
Truthy(x) == x # None /\ x # <<>>

\* Course.__init__ (lines 11-18)
Course(className, instructor, meetingType, time, days, location, dateRange) ==
    [className |-> className,
     instructor |-> IF Truthy(instructor) THEN instructor ELSE S_TBA,
     meetingType |-> Lower(meetingType),
     time |-> time,
     days |-> days,
     location |-> IF Truthy(location) THEN location ELSE S_TBA,
     dateRange |-> dateRange]

\* lines = block.strip().splitlines() (line 35)
BlockLines(block) == SplitLines(Strip(block))
\* lines 40-47: the last line holding the marker decides
InstructorOf(lns) ==
    LET hits == {i \in DOMAIN lns : Contains(lns[i], S_InstructorMarker)}
        last == CHOOSE i \in hits : \A j \in hits : j <= i
    IN  IF hits = {} THEN None
        ELSE Strip(Split(lns[last], S_InstructorMarker)[2])
\* lines 49-53: the first line holding the marker, 0 for None
ScheduledIndex(lns) ==
    LET hits == {i \in DOMAIN lns : Contains(lns[i], S_ScheduleMarker)}
    IN  IF hits = {} THEN 0 ELSE CHOOSE i \in hits : \A j \in hits : i <= j
\* lines 55-59
HeaderLine(lns) ==
    LET at == ScheduledIndex(lns)
    IN  IF at # 0 /\ at + 1 <= Len(lns) THEN Strip(lns[at + 1]) ELSE None
MeetingInfoLine(lns) ==
    LET at == ScheduledIndex(lns)
    IN  IF at # 0 /\ at + 2 <= Len(lns) THEN Strip(lns[at + 2]) ELSE None

\* line 61: timeVal = days = location = dateRange = meetingType = "TBA"
Defaults ==
    [timeVal |-> S_TBA, days |-> S_TBA, location |-> S_TBA, dateRange |-> S_TBA,
     meetingType |-> S_TBA]
\* the five assignments of the try block, in order (lines 68-72)
TryFields == <<"timeVal", "days", "location", "dateRange", "meetingType">>
TryHeaders == <<S_Time, S_Days, S_Where, S_DateRange, S_ScheduleType>>
\* lines 68-72 from the k-th assignment on: an assignment made before an
\* exception stays made.  headers.index raises ValueError, data[...] IndexError
RECURSIVE TryAssign(_, _, _, _)
TryAssign(headers, data, k, got) ==
    IF k > Len(TryFields) THEN [exc |-> "none", got |-> got]
    ELSE LET at == IndexOf(headers, TryHeaders[k])
             cell == Strip(data[at])
         IN  IF at = 0 THEN [exc |-> "ValueError", got |-> got]
             ELSE IF at > Len(data) THEN [exc |-> "IndexError", got |-> got]
             ELSE TryAssign(headers, data, k + 1,
                      [got EXCEPT ![TryFields[k]] =
                          IF TryFields[k] = "meetingType" THEN Lower(cell) ELSE cell])
\* lines 74-80 and 82-88: the row split at runs of two or more blanks
Positional(meetingInfoLine, got) ==
    LET parts == ReSplitWide(meetingInfoLine)
    IN  IF Len(parts) >= 7
        THEN [timeVal |-> Strip(parts[2]), days |-> Strip(parts[3]),
              location |-> Strip(parts[4]), dateRange |-> Strip(parts[5]),
              meetingType |-> Lower(Strip(parts[6]))]
        ELSE got
\* lines 63-88: the five schedule fields of a block, or the exception
ScheduleFields(lns) ==
    LET info == MeetingInfoLine(lns)
        try == TryAssign(Split(HeaderLine(lns), <<"\t">>), Split(info, <<"\t">>), 1, Defaults)
    IN  IF ~Truthy(info) THEN [exc |-> "none", mode |-> "none", got |-> Defaults]
        ELSE IF ~Contains(info, <<"\t">>)
             THEN [exc |-> "none", mode |-> "positional", got |-> Positional(info, Defaults)]
        ELSE IF try.exc = "none" THEN [exc |-> "none", mode |-> "tabbed", got |-> try.got]
        ELSE IF try.exc = "ValueError"
             THEN [exc |-> "none", mode |-> "fallback", got |-> Positional(info, try.got)]
        ELSE [exc |-> try.exc, mode |-> "tabbed", got |-> try.got]
\* lines 39 and 90: the record of a block
CourseOf(lns) ==
    LET f == ScheduleFields(lns).got
    IN  Course(Strip(lns[1]), InstructorOf(lns), f.meetingType, f.timeVal, f.days,
               f.location, f.dateRange)

(***************************************************************************)
(* The texts parseCourses is run on: up to MaxBlocks blocks, joined by two *)
(* to four line ends                                                      *)
(***************************************************************************)
\* a well-formed tab-delimited block
B_Lecture ==
    <<"C", "1", "\n", "A", "s", "s", "i", "g", "n", "e", "d", " ", "I", "n", "s", "t", "r",
      "u", "c", "t", "o", "r", ":", " ", "A", "n", "n", "\n", "S", "c", "h", "e", "d", "u",
      "l", "e", "d", " ", "M", "e", "e", "t", "i", "n", "g", " ", "T", "i", "m", "e", "s",
      "\n", "T", "y", "p", "e", "\t", "T", "i", "m", "e", "\t", "D", "a", "y", "s", "\t",
      "W", "h", "e", "r", "e", "\t", "D", "a", "t", "e", " ", "R", "a", "n", "g", "e",
      "\t", "S", "c", "h", "e", "d", "u", "l", "e", " ", "T", "y", "p", "e", "\t", "I",
      "n", "s", "t", "r", "u", "c", "t", "o", "r", "s", "\n", "C", "l", "a", "s", "s",
      "\t", "9", ":", "3", "0", " ", "A", "M", " ", "-", " ", "1", "0", ":", "4", "5", " ",
      "A", "M", "\t", "M", "W", "F", "\t", "R", "m", " ", "1", "\t", "0", "1", "/", "0",
      "6", "/", "2", "0", "2", "5", " ", "-", " ", "0", "4", "/", "0", "8", "/", "2", "0",
      "2", "5", "\t", "L", "e", "c", "t", "u", "r", "e", "\t", "A", "n", "n">>
\* the row's last cells are empty: fewer cells than headers once stripped
B_TrailingEmpty ==
    <<"C", "2", "\n", "A", "s", "s", "i", "g", "n", "e", "d", " ", "I", "n", "s", "t", "r",
      "u", "c", "t", "o", "r", ":", " ", "A", "n", "n", "\n", "S", "c", "h", "e", "d", "u",
      "l", "e", "d", " ", "M", "e", "e", "t", "i", "n", "g", " ", "T", "i", "m", "e", "s",
      "\n", "T", "y", "p", "e", "\t", "T", "i", "m", "e", "\t", "D", "a", "y", "s", "\t",
      "W", "h", "e", "r", "e", "\t", "D", "a", "t", "e", " ", "R", "a", "n", "g", "e",
      "\t", "S", "c", "h", "e", "d", "u", "l", "e", " ", "T", "y", "p", "e", "\t", "I",
      "n", "s", "t", "r", "u", "c", "t", "o", "r", "s", "\n", "C", "l", "a", "s", "s",
      "\t", "9", ":", "3", "0", " ", "A", "M", " ", "-", " ", "1", "0", ":", "4", "5", " ",
      "A", "M", "\t", "M", "W", "F", "\t", "\t", "\t", "\t">>
\* the Time cell is empty
B_EmptyTime ==
    <<"C", "3", "\n", "A", "s", "s", "i", "g", "n", "e", "d", " ", "I", "n", "s", "t", "r",
      "u", "c", "t", "o", "r", ":", " ", "A", "n", "n", "\n", "S", "c", "h", "e", "d", "u",
      "l", "e", "d", " ", "M", "e", "e", "t", "i", "n", "g", " ", "T", "i", "m", "e", "s",
      "\n", "T", "y", "p", "e", "\t", "T", "i", "m", "e", "\t", "D", "a", "y", "s", "\t",
      "W", "h", "e", "r", "e", "\t", "D", "a", "t", "e", " ", "R", "a", "n", "g", "e",
      "\t", "S", "c", "h", "e", "d", "u", "l", "e", " ", "T", "y", "p", "e", "\t", "I",
      "n", "s", "t", "r", "u", "c", "t", "o", "r", "s", "\n", "C", "l", "a", "s", "s",
      "\t", "\t", "M", "W", "F", "\t", "R", "m", " ", "1", "\t", "0", "1", "/", "0", "6",
      "/", "2", "0", "2", "5", " ", "-", " ", "0", "4", "/", "0", "8", "/", "2", "0", "2",
      "5", "\t", "L", "e", "c", "t", "u", "r", "e", "\t", "A", "n", "n">>
\* a tab-delimited row under a header without Schedule Type
B_NoTypeHeader ==
    <<"C", "4", "\n", "S", "c", "h", "e", "d", "u", "l", "e", "d", " ", "M", "e", "e", "t",
      "i", "n", "g", " ", "T", "i", "m", "e", "s", "\n", "T", "y", "p", "e", "\t", "T",
      "i", "m", "e", "\t", "D", "a", "y", "s", "\t", "W", "h", "e", "r", "e", "\t", "D",
      "a", "t", "e", " ", "R", "a", "n", "g", "e", "\n", "C", "l", "a", "s", "s", "\t",
      "9", ":", "3", "0", " ", "A", "M", " ", "-", " ", "1", "0", ":", "4", "5", " ", "A",
      "M", "\t", "M", "W", "F", "\t", "R", "m", " ", "1", "\t", "0", "1", "/", "0", "6",
      "/", "2", "0", "2", "5", " ", "-", " ", "0", "4", "/", "0", "8", "/", "2", "0", "2",
      "5">>
\* columns separated by two blanks, no tab
B_Positional ==
    <<"C", "5", "\n", "A", "s", "s", "i", "g", "n", "e", "d", " ", "I", "n", "s", "t", "r",
      "u", "c", "t", "o", "r", ":", " ", "A", "n", "n", "\n", "S", "c", "h", "e", "d", "u",
      "l", "e", "d", " ", "M", "e", "e", "t", "i", "n", "g", " ", "T", "i", "m", "e", "s",
      "\n", "T", "y", "p", "e", " ", " ", "T", "i", "m", "e", " ", " ", "D", "a", "y", "s",
      " ", " ", "W", "h", "e", "r", "e", " ", " ", "D", "a", "t", "e", " ", "R", "a", "n",
      "g", "e", " ", " ", "S", "c", "h", "e", "d", "u", "l", "e", " ", "T", "y", "p", "e",
      " ", " ", "I", "n", "s", "t", "r", "u", "c", "t", "o", "r", "s", "\n", "C", "l", "a",
      "s", "s", " ", " ", "9", ":", "3", "0", " ", "A", "M", " ", "-", " ", "1", "0", ":",
      "4", "5", " ", "A", "M", " ", " ", "t", "r", " ", " ", "R", "m", " ", "1", " ", " ",
      "0", "1", "/", "0", "6", "/", "2", "0", "2", "5", " ", "-", " ", "0", "4", "/", "0",
      "8", "/", "2", "0", "2", "5", " ", " ", "L", "a", "b", " ", " ", "A", "n", "n">>
\* a tab in the row, no header names, seven wide-separated fields
B_TabThenWide ==
    <<"C", "6", "\n", "S", "c", "h", "e", "d", "u", "l", "e", "d", " ", "M", "e", "e", "t",
      "i", "n", "g", " ", "T", "i", "m", "e", "s", "\n", "M", "e", "e", "t", "i", "n", "g",
      "s", "\n", "C", "l", "a", "s", "s", " ", "\t", " ", "9", ":", "3", "0", " ", "A",
      "M", " ", "-", " ", "1", "0", ":", "4", "5", " ", "A", "M", " ", " ", "M", "W", "F",
      " ", " ", "R", "m", " ", "1", " ", " ", "0", "1", "/", "0", "6", "/", "2", "0", "2",
      "5", " ", "-", " ", "0", "4", "/", "0", "8", "/", "2", "0", "2", "5", " ", " ", "L",
      "e", "c", "t", "u", "r", "e", " ", " ", "A", "n", "n">>
\* fewer than seven fields, no tab
B_PositionalShort ==
    <<"C", "7", "\n", "S", "c", "h", "e", "d", "u", "l", "e", "d", " ", "M", "e", "e", "t",
      "i", "n", "g", " ", "T", "i", "m", "e", "s", "\n", "T", "y", "p", "e", " ", " ", "T",
      "i", "m", "e", "\n", "C", "l", "a", "s", "s", " ", " ", "9", ":", "3", "0", " ", "A",
      "M", " ", "-", " ", "1", "0", ":", "4", "5", " ", "A", "M">>
\* a class name and an empty instructor, no schedule section
B_NameOnly ==
    <<"C", "8", "\n", "A", "s", "s", "i", "g", "n", "e", "d", " ", "I", "n", "s", "t", "r",
      "u", "c", "t", "o", "r", ":">>
\* the schedule section stops after its header line
B_HeaderOnly ==
    <<"C", "9", "\n", "S", "c", "h", "e", "d", "u", "l", "e", "d", " ", "M", "e", "e", "t",
      "i", "n", "g", " ", "T", "i", "m", "e", "s", "\n", "T", "y", "p", "e", "\t", "T",
      "i", "m", "e", "\t", "D", "a", "y", "s", "\t", "W", "h", "e", "r", "e", "\t", "D",
      "a", "t", "e", " ", "R", "a", "n", "g", "e", "\t", "S", "c", "h", "e", "d", "u", "l",
      "e", " ", "T", "y", "p", "e", "\t", "I", "n", "s", "t", "r", "u", "c", "t", "o", "r",
      "s">>
\* a block of blanks
B_Blank ==
    <<" ">>
BlockPool == {B_Lecture, B_TrailingEmpty, B_EmptyTime, B_NoTypeHeader, B_Positional, B_TabThenWide, B_PositionalShort, B_NameOnly, B_HeaderOnly, B_Blank}

MaxBlocks == 2
SepPool == {<<"\n", "\n">>, <<"\n", "\n", "\n">>, <<"\n", "\n", "\n", "\n">>}

InitParse ==
    /\ GenIdle /\ ResolveIdle
    /\ text \in {Join(bs, sep) : bs \in SeqsUpTo(BlockPool, MaxBlocks), sep \in SepPool}
    /\ blocks = <<>> /\ bi = 0 /\ courses = <<>> /\ ppc = "start"

\* lines 31-32
ParseStart ==
    /\ ppc = "start"
    /\ blocks' = Split(Strip(text), <<"\n", "\n">>)
    /\ bi' = 1
    /\ courses' = <<>>
    /\ ppc' = "loop"
    /\ UNCHANGED text /\ UNCHANGED genVars /\ UNCHANGED resVars

AtBlock == ppc = "loop" /\ bi <= Len(blocks)
\* lines 90-91
Emit(lns) ==
    /\ courses' = Append(courses, CourseOf(lns))
    /\ bi' = bi + 1
    /\ UNCHANGED <<text, blocks, ppc>> /\ UNCHANGED genVars /\ UNCHANGED resVars
\* lines 36-37
ParseSkipEmpty ==
    /\ AtBlock
    /\ BlockLines(blocks[bi]) = <<>>
    /\ bi' = bi + 1
    /\ UNCHANGED <<text, blocks, courses, ppc>> /\ UNCHANGED genVars /\ UNCHANGED resVars
\* line 63 false: no row was located
ParseNoSchedule ==
    /\ AtBlock
    /\ BlockLines(blocks[bi]) # <<>>
    /\ ScheduleFields(BlockLines(blocks[bi])).mode = "none"
    /\ Emit(BlockLines(blocks[bi]))
\* lines 64-72: every header name found, every cell present
ParseTabbed ==
    /\ AtBlock
    /\ BlockLines(blocks[bi]) # <<>>
    /\ ScheduleFields(BlockLines(blocks[bi])).mode = "tabbed"
    /\ ScheduleFields(BlockLines(blocks[bi])).exc = "none"
    /\ Emit(BlockLines(blocks[bi]))
\* lines 73-80: a header name is missing
ParseTabbedFallback ==
    /\ AtBlock
    /\ BlockLines(blocks[bi]) # <<>>
    /\ ScheduleFields(BlockLines(blocks[bi])).mode = "fallback"
    /\ Emit(BlockLines(blocks[bi]))
\* lines 68-72: a cell is missing; IndexError is not caught and leaves parseCourses
ParseTabbedRaise ==
    /\ AtBlock
    /\ BlockLines(blocks[bi]) # <<>>
    /\ ScheduleFields(BlockLines(blocks[bi])).exc # "none"
    /\ ppc' = "raised"
    /\ UNCHANGED <<text, blocks, bi, courses>> /\ UNCHANGED genVars /\ UNCHANGED resVars
\* lines 81-88
ParsePositional ==
    /\ AtBlock
    /\ BlockLines(blocks[bi]) # <<>>
    /\ ScheduleFields(BlockLines(blocks[bi])).mode = "positional"
    /\ Emit(BlockLines(blocks[bi]))
\* line 93
ParseReturn ==
    /\ ppc = "loop" /\ bi > Len(blocks)
    /\ ppc' = "returned"
    /\ UNCHANGED <<text, blocks, bi, courses>> /\ UNCHANGED genVars /\ UNCHANGED resVars

NextParse ==
    \/ ParseStart
    \/ ParseSkipEmpty
    \/ ParseNoSchedule
    \/ ParseTabbed
    \/ ParseTabbedFallback
    \/ ParseTabbedRaise
    \/ ParsePositional
    \/ ParseReturn
SpecParse == InitParse /\ [][NextParse]_vars

(***************************************************************************)
(* parseCourses: what is claimed of it                                     *)
(***************************************************************************)
\* parseCourses has stopped, by returning or by an exception leaving it
Stopped == ppc \in {"returned", "raised"}
\* the blocks of a text, read line by line: a block is a run of lines between
\* empty lines, it counts when one of its lines holds more than blanks, and its
\* name is the first such line
RECURSIVE GroupNames(_, _, _, _)
GroupNames(ls, i, open, acc) ==
    IF i > Len(ls) THEN acc
    ELSE IF ls[i] = <<>> THEN GroupNames(ls, i + 1, FALSE, acc)
    ELSE IF Strip(ls[i]) = <<>> THEN GroupNames(ls, i + 1, open, acc)
    ELSE IF open THEN GroupNames(ls, i + 1, TRUE, acc)
    ELSE GroupNames(ls, i + 1, TRUE, Append(acc, Strip(ls[i])))
NonEmptyBlockNames(t) == GroupNames(Split(t, <<"\n">>), 1, FALSE, <<>>)
ClassNames == [i \in DOMAIN courses |-> courses[i].className]

\* C1: parseCourses never raises, whatever the text: every block, however
\* malformed (also a tabbed row with fewer cells than the header has names),
\* still gives a record, with "TBA" in the fields that could not be read.
C1_ParseNeverRaises ==
    /\ ppc # "raised"
    /\ ppc = "returned" => Len(courses) = Len(NonEmptyBlockNames(text))

\* C3: once parseCourses has stopped, its records are one per non-empty block
\* of the text, in the order of the text; blocks of blanks give no record and
\* a text of blanks gives no records at all.
C3_OneRecordPerBlock ==
    Stopped => ClassNames = NonEmptyBlockNames(text)

SchedulePart(c) == <<c.instructor, c.meetingType, c.time, c.days, c.location, c.dateRange>>
\* C8: in every record parseCourses builds, className is not empty and each of
\* instructor, meetingType, time, days, location, dateRange is a string that
\* is never None and never empty, also when the cell it was read from is empty.
C8_FieldsNeverEmpty ==
    \A i \in DOMAIN courses :
        /\ courses[i].className # <<>>
        /\ \A k \in DOMAIN SchedulePart(courses[i]) :
               SchedulePart(courses[i])[k] \notin {None, <<>>}

\* the block the loop handled last, once it has appended that block's record
LastBlock == blocks[bi - 1]
LastEmitted ==
    /\ ppc \in {"loop", "returned"}
    /\ bi > 1
    /\ BlockLines(LastBlock) # <<>>
\* a block whose row holds a tab, whose header line lacks one of the five
\* names, and whose row has fewer than 7 parts at runs of two or more blanks
MissingNameShortRow(lns) ==
    /\ Truthy(MeetingInfoLine(lns))
    /\ Contains(MeetingInfoLine(lns), <<"\t">>)
    /\ \E k \in DOMAIN TryHeaders :
           \A j \in DOMAIN Split(HeaderLine(lns), <<"\t">>) :
               Split(HeaderLine(lns), <<"\t">>)[j] # TryHeaders[k]
    /\ Len(ReSplitWide(MeetingInfoLine(lns))) < 7
\* C11: extraction is all or nothing: for a block whose row holds a tab, whose
\* header line lacks one of "Time", "Days", "Where", "Date Range", "Schedule
\* Type" and whose row splits into fewer than 7 parts, the record has time,
\* days, location, dateRange and meetingType all at the default "TBA" (the
\* record keeps meetingType in lower case); none is filled from the names found.
C11_AllOrNothing ==
    (LastEmitted /\ MissingNameShortRow(BlockLines(LastBlock))) =>
        LET c == courses[Len(courses)]
        IN  /\ c.time = S_TBA
            /\ c.days = S_TBA
            /\ c.location = S_TBA
            /\ c.dateRange = S_TBA
            /\ Upper(c.meetingType) = S_TBA

(***************************************************************************)
(* generateICS: the day an event starts on                                 *)
(***************************************************************************)
\* the calendar date written at the head of a YYYYMMDDTHHMMSS text
DateOfStamp(s) ==
    [y |-> Val(SubSeq(s, 1, 4)), m |-> Val(SubSeq(s, 5, 6)), d |-> Val(SubSeq(s, 7, 8))]
Jan09Thu == [y |-> 2025, m |-> 1, d |-> 9]
\* C12: every event's start and end instants fall on one calendar date d,
\* with d on or after the resolved range start, at most 6 days after it, and
\* on one of the weekdays decoded from the record's days (the range from
\* Wednesday Jan 08, 2025 with days "tr" starts on Thursday Jan 09).
C12_EventOnFirstMatchingDay ==
    \A o \in Outcomes :
        o.exc = "none" =>
            \A k \in 1..EventCount(o.doc) :
                LET block == EventBlock(o.doc, k)
                    course == CHOOSE c \in {records[i] : i \in DOMAIN records} :
                                  c.className = FieldOf(block, S_Summary)
                    start == parseDateRange(course.dateRange).start
                    d == DateOfStamp(FieldOf(block, S_DtStart \o S_tzid \o <<":">>))
                    e == DateOfStamp(FieldOf(block, S_DtEnd \o S_tzid \o <<":">>))
                IN  /\ ValidDate(d.y, d.m, d.d)
                    /\ e = d
                    /\ ToOrdinal(start) <= ToOrdinal(d)
                    /\ ToOrdinal(d) <= ToOrdinal(start) + 6
                    /\ Weekday(d) \in NamedWeekdays(TableDecode(course.days))
                    /\ course = R_Tutorial => d = Jan09Thu /\ Weekday(d) = 3
\* the tutorial, whose range starts on a Wednesday, has been written out as an
\* event that starts and ends on the Thursday
C12_Witness ==
    /\ gpc = "done"
    /\ doc2.exc = "none"
    /\ \E k \in 1..EventCount(doc2.doc) :
           /\ FieldOf(EventBlock(doc2.doc, k), S_Summary) = R_Tutorial.className
           /\ FieldOf(EventBlock(doc2.doc, k), S_DtStart \o S_tzid \o <<":">>) =
                  <<"2", "0", "2", "5", "0", "1", "0", "9", "T", "1", "3", "0", "0", "0", "0">>
           /\ FieldOf(EventBlock(doc2.doc, k), S_DtEnd \o S_tzid \o <<":">>) =
                  <<"2", "0", "2", "5", "0", "1", "0", "9", "T", "1", "4", "1", "5", "0", "0">>

====
